---- MODULE Spec2Model ----
(***************************************************************************)
(* Page codec of xsqlite (src/sqlite3crypt.c): key derivation, the codec   *)
(* callback, attach and the rekey protocol, together with the part of the  *)
(* host pager the rekey protocol drives (cache, rollback journal, main     *)
(* file).                                                                  *)
(*                                                                         *)
(* A page is a 2-bit value, a key is the 8-byte digest prefix scaled down  *)
(* to 0..2, and ARC4 is the xor with a key-dependent, non-zero keystream.  *)
(***************************************************************************)
EXTENDS Integers, FiniteSets, Sequences, TLC

\* ------------------------------------------------------------------ bounds
NPages == 3          \* largest page count of the primary database file
NPass == 3           \* non-empty passphrases 1..NPass; 0 is the empty key
MaxCtx == 2          \* cipher contexts the allocator hands out in one run
MaxCalls == 2        \* rekey calls in one run

\* PAGER_MJ_PGNO(p): the page the engine reserves and rekey skips
PendingPage == 2

NULL == 0
PageVals == 0..3
Keys == 0..2
Pages == 1..NPages
Passphrases == 1..NPass
CtxIds == 1..MaxCtx
DbIdx == 0..1
BadDb == 2
PageSizes == 1..2
NotCached == -1
Unallocated == -1
NoKey == -1
Uninit == -1

VARIABLES
    codec,      \* DbIdx -> the CodecCryptBlock registered on that pager
    keyOf,      \* CtxIds -> key bytes of the context (Unallocated if never malloc'd)
    freed,      \* contexts handed to sqlite3_free
    doubleFree, \* TRUE once a context was freed twice
    disk,       \* Pages -> bytes of the page in the primary database file
    cache,      \* Pages -> plain content in the pager cache, or NotCached
    dirty,      \* pages marked dirty in the open transaction
    journal,    \* Pages -> bytes of the page in the rollback journal, or NotCached
    txn,        \* "none" | "open": write transaction on the primary
    pageCount,  \* sqlite3PagerPagecount of the primary
    mutex,      \* db->mutex held
    pc,         \* position inside sqlite3_rekey_v2: idle begin loop end reconcile
    rc,         \* rekey's local rc
    n,          \* rekey's loop variable
    nPage,      \* rekey's local nPage
    call,       \* record of the current / most recent rekey call
    returned,   \* TRUE exactly in the state right after rekey returned
    calls,      \* rekey calls made so far
    last,       \* observation of the most recent codec callback invocation
    att,        \* observation of the most recent sqlite3CodecAttach call
    pagerPageSize \* DbIdx -> pager->pageSize of that database

vars == <<codec, keyOf, freed, doubleFree, disk, cache, dirty, journal, txn,
          pageCount, mutex, pc, rc, n, nPage, call, returned, calls, last, att,
          pagerPageSize>>

\* ------------------------------------------------------------- primitives
Xor(a, b) == (((a % 2) + (b % 2)) % 2) + 2 * ((((a \div 2) % 2) + ((b \div 2) % 2)) % 2)

\* keystream of ARC4 under a key; no key gives the all-zero stream it is
\* never run with
KeyStream(k) == k + 1

\* mbedtls_arc4_setup + mbedtls_arc4_crypt: xor of the input with the keystream
Arc4Crypt(k, in) == Xor(in, KeyStream(k))

\* the first KEYSIZE bytes of the SHA-1 digest of a passphrase
Sha1Prefix(p) == p % 3

\* SQLiteEncrypt(ctx, in, out, size): the new content of out
SQLiteEncrypt(k, in, out) == IF k # 0 THEN Arc4Crypt(k, in) ELSE out

\* SQLiteDecrypt(ctx, in, out, size): the new content of out
SQLiteDecrypt(k, in, out) == SQLiteEncrypt(k, in, out)

\* content the application stored in page p (what a correct read returns)
OrigPage(p) == p % 4

\* the bytes of plain content v in a file kept under key k (NoKey: plaintext)
Stored(k, v) == IF k = NoKey THEN v ELSE Arc4Crypt(k, v)

\* ------------------------------------------------------------------- heap
\* the key bytes behind a context pointer (NoKey for the null pointer)
KeyVal(ctx) == IF ctx = NULL THEN NoKey ELSE keyOf[ctx]

\* sqlite3_malloc(sizeof(SQLiteCipherContext)): the next unused context
FreeIds == {i \in CtxIds : keyOf[i] = Unallocated}
NewId == CHOOSE i \in FreeIds : \A j \in FreeIds : i <= j

\* CipherContextNew / CipherContextClone storing key bytes k in context id
WithCtx(id, k) == IF id = NULL THEN keyOf ELSE [keyOf EXCEPT ![id] = k]

\* the absence of a registered codec on a pager (sqlite3PagerGetCodec = NULL)
NoBlock == [present |-> FALSE, readCtx |-> NULL, writeCtx |-> NULL, cryptBuffer |-> 0,
            pageSize |-> 0, bufSize |-> 0]

\* the block with a scratch buffer of the default page size whatever the pager's
CreateCodeCryptBlock_DefaultBuffer(ctx, pageSize) ==
    [present |-> TRUE, readCtx |-> ctx, writeCtx |-> ctx, cryptBuffer |-> Uninit,
     pageSize |-> pageSize, bufSize |-> 1]

\* CreateCodeCryptBlock(ctx, pager, -1, NULL) on a pager of the given page
\* size: the scratch buffer comes from sqlite3_malloc(pageSize) and is not
\* initialised
CreateCodeCryptBlock(ctx, pageSize) ==
    [present |-> TRUE, readCtx |-> ctx, writeCtx |-> ctx, cryptBuffer |-> Uninit,
     pageSize |-> pageSize, bufSize |-> pageSize]

\* the callback reallocating the scratch buffer for the new size
SQLite3CodecSizeChangedCallback_Realloc(b, pageSize) ==
    IF b.present /\ b.pageSize # pageSize
    THEN [b EXCEPT !.pageSize = pageSize, !.bufSize = pageSize, !.cryptBuffer = Uninit]
    ELSE b

\* SQLite3CodecSizeChangedCallback(pArg, pageSize, reservedSize)
SQLite3CodecSizeChangedCallback(b, pageSize) ==
    IF b.present /\ b.pageSize # pageSize THEN [b EXCEPT !.pageSize = pageSize] ELSE b

\* the clone handing out the original pointer
CipherContextClone_Shared(org, id) == org

\* CipherContextClone(org): the context the caller gets, a fresh allocation id
CipherContextClone(org, id) == id

\* the elements of a sequence
Range(q) == {q[i] : i \in 1..Len(q)}

\* the sqlite3_free calls q hand over a context that is in `already` or twice
FreedTwice(q, already) ==
    \/ Range(q) \cap already # {}
    \/ \E i \in 1..Len(q), j \in 1..Len(q) : i < j /\ q[i] = q[j]

\* the destructor freeing the write key whenever there is one
FreeCodecCryptBlock_Both(b) ==
    IF ~b.present THEN <<>>
    ELSE (IF b.readCtx # NULL THEN <<b.readCtx>> ELSE <<>>)
         \o (IF b.writeCtx # NULL THEN <<b.writeCtx>> ELSE <<>>)

\* FreeCodecCryptBlock: the contexts it hands to sqlite3_free, in call order
FreeCodecCryptBlock(b) ==
    IF ~b.present THEN <<>>
    ELSE (IF b.readCtx # NULL THEN <<b.readCtx>> ELSE <<>>)
         \o (IF b.writeCtx # NULL /\ b.writeCtx # b.readCtx THEN <<b.writeCtx>> ELSE <<>>)

\* ------------------------------------------------------------ the callback
Modes == {0, 2, 3, 4, 6, 7}
DecryptModes == {0, 2, 3}

PassThrough(b, data) == [ret |-> "data", data |-> data, scratch |-> b.cryptBuffer]

\* the callback with mode 6 encrypting into the caller's buffer
SQLite3CodecCallback_InPlace(b, data, nMode) ==
    IF ~b.present THEN PassThrough(b, data)
    ELSE IF nMode \in DecryptModes THEN
        IF b.readCtx = NULL THEN PassThrough(b, data)
        ELSE [ret |-> "data",
              data |-> SQLiteDecrypt(keyOf[b.readCtx], data, data),
              scratch |-> b.cryptBuffer]
    ELSE IF nMode = 6 THEN
        IF b.writeCtx = NULL THEN PassThrough(b, data)
        ELSE [ret |-> "data",
              data |-> SQLiteEncrypt(keyOf[b.writeCtx], data, data),
              scratch |-> b.cryptBuffer]
    ELSE IF nMode = 7 THEN
        IF b.readCtx = NULL THEN PassThrough(b, data)
        ELSE [ret |-> "scratch",
              data |-> data,
              scratch |-> SQLiteEncrypt(keyOf[b.readCtx], data, b.cryptBuffer)]
    ELSE PassThrough(b, data)

\* the callback with mode 7 testing and using the write key
SQLite3CodecCallback_JournalWriteKey(b, data, nMode) ==
    IF ~b.present THEN PassThrough(b, data)
    ELSE IF nMode \in DecryptModes THEN
        IF b.readCtx = NULL THEN PassThrough(b, data)
        ELSE [ret |-> "data",
              data |-> SQLiteDecrypt(keyOf[b.readCtx], data, data),
              scratch |-> b.cryptBuffer]
    ELSE IF nMode \in {6, 7} THEN
        IF b.writeCtx = NULL THEN PassThrough(b, data)
        ELSE [ret |-> "scratch",
              data |-> data,
              scratch |-> SQLiteEncrypt(keyOf[b.writeCtx], data, b.cryptBuffer)]
    ELSE PassThrough(b, data)

\* SQLite3CodecCallback(pArg, data, nPageNum, nMode): which buffer is returned
\* and the content of the caller's buffer and of the scratch buffer afterwards
SQLite3CodecCallback(b, data, nMode) ==
    IF ~b.present THEN PassThrough(b, data)
    ELSE IF nMode \in DecryptModes THEN
        IF b.readCtx = NULL THEN PassThrough(b, data)
        ELSE [ret |-> "data",
              data |-> SQLiteDecrypt(keyOf[b.readCtx], data, data),
              scratch |-> b.cryptBuffer]
    ELSE IF nMode = 6 THEN
        IF b.writeCtx = NULL THEN PassThrough(b, data)
        ELSE [ret |-> "scratch",
              data |-> data,
              scratch |-> SQLiteEncrypt(keyOf[b.writeCtx], data, b.cryptBuffer)]
    ELSE IF nMode = 7 THEN
        IF b.readCtx = NULL THEN PassThrough(b, data)
        ELSE [ret |-> "scratch",
              data |-> data,
              scratch |-> SQLiteEncrypt(keyOf[b.readCtx], data, b.cryptBuffer)]
    ELSE PassThrough(b, data)

\* the callback encrypts pageSize bytes into a scratch buffer that is smaller
Overflows(b, nMode) ==
    /\ b.present
    /\ \/ nMode = 6 /\ b.writeCtx # NULL /\ keyOf[b.writeCtx] # 0
       \/ nMode = 7 /\ b.readCtx # NULL /\ keyOf[b.readCtx] # 0
    /\ b.pageSize > b.bufSize

\* the callback returns a scratch buffer that was never written
ReadsUninit(r) == r.ret = "scratch" /\ r.scratch = Uninit

\* the callback result once the uninitialised bytes it returns are read as g
Resolve(r, g) == IF ReadsUninit(r) THEN [r EXCEPT !.scratch = g] ELSE r

\* the bytes the pager takes from the returned buffer
Returned(r) == IF r.ret = "scratch" THEN r.scratch ELSE r.data

\* the block after the callback wrote its scratch buffer
AfterCallback(b, r) == IF b.present THEN [b EXCEPT !.cryptBuffer = r.scratch] ELSE b

\* ------------------------------------------------------------ the pager
\* pages that hold data: 1..pageCount without the reserved page
DataPages == (1..pageCount) \ {PendingPage}

Min(S) == CHOOSE x \in S : \A y \in S : x <= y

\* sqlite3PagerGet(p, n, &pPage, 0): the page content in the cache afterwards
\* (a page not yet cached is read from the file and run through mode 3)
PagerGet(p) ==
    IF cache[p] # NotCached THEN cache[p]
    ELSE SQLite3CodecCallback(codec[0], disk[p], 3).data

\* sqlite3PagerWrite(pPage): the callback result of journalling content v
\* (mode 7), used only when the page is not yet in the journal
PagerWrite(v) == SQLite3CodecCallback(codec[0], v, 7)

\* journal playback of sqlite3BtreeRollback: the main file afterwards
Playback == [p \in Pages |-> IF journal[p] # NotCached THEN journal[p] ELSE disk[p]]

\* the cache after a rollback: journalled and dirty pages are dropped
CacheAfterRollback ==
    [p \in Pages |-> IF journal[p] # NotCached \/ p \in dirty THEN NotCached ELSE cache[p]]

EmptyJournal == [p \in Pages |-> NotCached]

\* sqlite3PagerSetCodec(pager of nDb, ..., b): frees the codec it replaces and
\* reports the pager's page size to the new one
PagerSetCodec(nDb, b) ==
    /\ codec' = [codec EXCEPT ![nDb] = SQLite3CodecSizeChangedCallback(b, pagerPageSize[nDb])]
    /\ freed' = freed \cup Range(FreeCodecCryptBlock(codec[nDb]))
    /\ doubleFree' = (doubleFree \/ FreedTwice(FreeCodecCryptBlock(codec[nDb]), freed))

\* ---------------------------------------------------------- observations
NoCall == [active |-> FALSE, key |-> 0, preBlock |-> FALSE, preReadCtx |-> NULL,
           preRead |-> NoKey, preDisk |-> [p \in Pages |-> 0], newCtx |-> NULL,
           newKey |-> NoKey, beginFailed |-> FALSE, pageFailed |-> {},
           touched |-> {}, commitTried |-> FALSE, rolledBack |-> FALSE,
           ret |-> "NONE", visited |-> <<>>, preAttached |-> NoBlock]

\* no sqlite3CodecAttach call has just returned
NoAtt == [nDb |-> -1, pKey |-> 0, ret |-> "NONE", pre |-> [d \in DbIdx |-> NoBlock],
          allocated |-> {}]

NoObs == [mode |-> -1, db |-> 0, in |-> 0, block |-> NoBlock, readKey |-> NoKey,
          writeKey |-> NoKey, res |-> PassThrough(NoBlock, 0)]

Init ==
    \* a connection just opened on a plaintext database file
    /\ codec = [d \in DbIdx |-> NoBlock]
    /\ keyOf = [i \in CtxIds |-> Unallocated]
    /\ freed = {}
    /\ doubleFree = FALSE
    /\ pageCount \in 0..NPages
    /\ disk = [p \in Pages |-> OrigPage(p)]
    /\ cache = [p \in Pages |-> NotCached]
    /\ dirty = {}
    /\ journal = EmptyJournal
    /\ txn = "none"
    /\ mutex = FALSE
    /\ pc = "idle"
    /\ rc = "ERROR"
    /\ n = 0
    /\ nPage = 0
    /\ call = NoCall
    /\ returned = FALSE
    /\ calls = 0
    /\ last = NoObs
    /\ att = NoAtt
    /\ pagerPageSize = [d \in DbIdx |-> 1]

\* every page holding data reads correctly under key k (NoKey: as plaintext)
Readable(d, k) == \A p \in DataPages : d[p] = Stored(k, OrigPage(p))

\* the allocation that fails in a call: none, the cipher context, or the
\* block (or its scratch buffer) in CreateCodeCryptBlock
AllocFails == {"none", "ctx", "block"}

\* --------------------------------------------------------------- attach
\* what the out-of-bounds read of db->aDb[nDb] can lead to
UbOutcomes == {"OK", "NOMEM", "CRASH"}

\* no key was given
NoKeyGiven(pKey) == pKey = 0

\* attach taking the no-key path for the primary as for an attached database
Inherits_AnyDb(nDb, pKey) ==
    NoKeyGiven(pKey) /\ codec[0].present /\ codec[0].readCtx # NULL

\* lines 317-337: no key, not the primary, and the primary has a read key
Inherits(nDb, pKey) ==
    NoKeyGiven(pKey) /\ nDb # 0 /\ codec[0].present /\ codec[0].readCtx # NULL

\* sqlite3CodecAttach(db, nDb, pKey, nKeyLen); pKey = 0 is "no key" (NULL or
\* length 0), pKey = -1 a non-NULL key with a negative length, nDb = BadDb an
\* index that names no open database; fail is the allocation that fails (if
\* any), ub the outcome of indexing db->aDb with BadDb.
\* On the primary the caller passes the key the file is kept under.
sqlite3CodecAttach(nDb, pKey, fail, ub) ==
    LET valid == nDb \in DbIdx
        inherit == Inherits(nDb, pKey)
        derive == pKey > 0
        needsCtx == inherit \/ derive
        ctxOk == needsCtx /\ fail # "ctx"
        id == IF inherit THEN CipherContextClone(codec[0].readCtx, NewId) ELSE NewId
        key == IF derive THEN Sha1Prefix(pKey) ELSE keyOf[codec[0].readCtx]
        blockOk == ctxOk /\ valid /\ fail = "none"
        ret == IF ~needsCtx THEN (IF NoKeyGiven(pKey) THEN "OK" ELSE "NOMEM")
               ELSE IF ~ctxOk THEN "NOMEM"
               ELSE IF ~valid THEN ub
               ELSE IF fail = "block" THEN "NOMEM" ELSE "OK"
    IN  /\ pc = "idle"
        /\ (~needsCtx) => (fail = "none")
        /\ (~valid) => (fail # "block")
        /\ (ub # "OK") => (ctxOk /\ ~valid)
        /\ ctxOk => (FreeIds # {})
        /\ (nDb = 0 /\ pKey > 0) => Readable(disk, Sha1Prefix(pKey))
        /\ keyOf' = (IF ctxOk THEN WithCtx(id, key) ELSE keyOf)
        /\ IF blockOk
           THEN PagerSetCodec(nDb, CreateCodeCryptBlock(id, pagerPageSize[nDb]))
           ELSE UNCHANGED <<codec, freed, doubleFree>>
        /\ att' = [nDb |-> nDb, pKey |-> pKey, ret |-> ret, pre |-> codec,
                   allocated |-> CtxIds \ FreeIds]
        /\ pc' = (IF ret = "CRASH" THEN "crashed" ELSE pc)
        /\ returned' = FALSE
        /\ last' = NoObs
        /\ call' = NoCall
        /\ UNCHANGED <<disk, cache, dirty, journal, txn, pageCount, calls, mutex,
                       rc, n, nPage, pagerPageSize>>

\* ----------------------------------------------------------------- rekey
\* sqlite3_rekey_v2, lines 454-481: derive the context, create the block or
\* change the write key; the mutex is not held yet
RekeyStart(pKey, fail) ==
    LET ctxOk == pKey # 0 /\ fail # "ctx"
        ctx == IF ctxOk THEN NewId ELSE NULL
        nomem == ~codec[0].present /\ fail = "block"
        created == ~codec[0].present /\ ~nomem
        started == [NoCall EXCEPT !.active = TRUE, !.key = pKey,
                       !.preBlock = codec[0].present,
                       !.preReadCtx = codec[0].readCtx,
                       !.preRead = KeyVal(codec[0].readCtx),
                       !.preDisk = disk,
                       !.preAttached = codec[1],
                       !.newCtx = ctx,
                       !.newKey = (IF ctxOk THEN Sha1Prefix(pKey) ELSE NoKey)]
    IN  /\ pc = "idle"
        /\ calls < MaxCalls
        /\ calls' = calls + 1
        /\ (fail = "ctx") => (pKey # 0)
        /\ (fail = "block") => ~codec[0].present
        /\ ctxOk => (FreeIds # {})
        /\ keyOf' = WithCtx(ctx, Sha1Prefix(pKey))
        /\ codec' = [codec EXCEPT ![0] =
                        IF nomem THEN @
                        ELSE IF created
                             THEN SQLite3CodecSizeChangedCallback(
                                 [CreateCodeCryptBlock(ctx, pagerPageSize[0])
                                     EXCEPT !.readCtx = NULL], pagerPageSize[0])
                             ELSE [@ EXCEPT !.writeCtx = ctx]]
        /\ IF nomem
           THEN /\ call' = [started EXCEPT !.active = FALSE, !.ret = "NOMEM"]
                /\ returned' = TRUE
                /\ UNCHANGED pc
           ELSE /\ call' = started
                /\ returned' = FALSE
                /\ pc' = "lock"
        /\ UNCHANGED mutex
        /\ last' = NoObs
        /\ att' = NoAtt
        /\ UNCHANGED pagerPageSize
        /\ UNCHANGED <<freed, doubleFree, disk, cache, dirty, journal, txn,
                       pageCount, rc, n, nPage>>

\* line 481: sqlite3_mutex_enter(db->mutex)
RekeyMutexEnter ==
    /\ pc = "lock"
    /\ ~mutex
    /\ mutex' = TRUE
    /\ pc' = "begin"
    /\ returned' = FALSE
    /\ last' = NoObs
    /\ att' = NoAtt
    /\ UNCHANGED <<codec, keyOf, freed, doubleFree, disk, cache, dirty, journal, txn,
                   pageCount, rc, n, nPage, call, calls, pagerPageSize>>

\* line 484: rc = sqlite3BtreeBeginTrans(pbt, 1), and the loop set-up
RekeyBeginTrans(fail) ==
    /\ pc = "begin"
    /\ IF fail
       THEN /\ rc' = "IOERR"
            /\ pc' = "end"
            /\ call' = [call EXCEPT !.beginFailed = TRUE]
            /\ UNCHANGED <<txn, n, nPage>>
       ELSE /\ rc' = "OK"
            /\ txn' = "open"
            /\ nPage' = pageCount
            /\ n' = 1
            /\ pc' = (IF pageCount >= 1 THEN "loop" ELSE "end")
            /\ call' = call
    /\ returned' = FALSE
    /\ last' = NoObs
    /\ att' = NoAtt
    /\ UNCHANGED pagerPageSize
    /\ UNCHANGED <<codec, keyOf, freed, doubleFree, disk, cache, dirty, journal,
                   pageCount, calls, mutex>>

\* the loop leaving every page in
Skipped_None(p) == FALSE

\* lines 498-499: the page the loop leaves out, PAGER_MJ_PGNO
Skipped(p) == p = PendingPage

\* lines 497-505: one iteration of the page loop
RekeyPage(getFail, writeFail, g) ==
    LET v == PagerGet(n)
        journalled == journal[n] # NotCached
        written == ~Skipped(n) /\ ~getFail /\ ~writeFail /\ ~journalled
        r == Resolve(PagerWrite(v), g)
    IN  /\ pc = "loop"
        /\ n <= nPage
        /\ getFail => ~writeFail
        /\ Skipped(n) => (~getFail /\ ~writeFail)
        /\ (g # 0) => (written /\ ReadsUninit(PagerWrite(v)))
        /\ IF Skipped(n)
           THEN UNCHANGED <<rc, cache, journal, dirty, codec, call>>
           ELSE IF getFail
           THEN /\ rc' = "IOERR"
                /\ call' = [call EXCEPT !.pageFailed = @ \cup {n}]
                /\ UNCHANGED <<cache, journal, dirty, codec>>
           ELSE IF writeFail
           THEN /\ rc' = "IOERR"
                /\ cache' = [cache EXCEPT ![n] = v]
                /\ call' = [call EXCEPT !.pageFailed = @ \cup {n}]
                /\ UNCHANGED <<journal, dirty, codec>>
           ELSE /\ rc' = "OK"
                /\ cache' = [cache EXCEPT ![n] = v]
                /\ journal' = (IF journalled THEN journal
                               ELSE [journal EXCEPT ![n] = Returned(r)])
                /\ codec' = (IF journalled THEN codec
                             ELSE [codec EXCEPT ![0] = AfterCallback(@, r)])
                /\ dirty' = dirty \cup {n}
                /\ call' = [call EXCEPT !.touched = @ \cup {n},
                                        !.visited = Append(@, n)]
        /\ n' = n + 1
        /\ pc' = (IF n + 1 > nPage THEN "end" ELSE "loop")
        /\ returned' = FALSE
        /\ last' = NoObs
        /\ att' = NoAtt
        /\ UNCHANGED pagerPageSize
        /\ UNCHANGED <<keyOf, freed, doubleFree, disk, txn, pageCount, calls, mutex, nPage>>

\* lines 509-510: sqlite3BtreeCommit. The pager writes the dirty pages to the
\* main file in page order, each through mode 6, then deletes the journal; it
\* can fail before any of these steps and then leaves the transaction open.
RekeyCommit(fail, g) ==
    LET p == Min(dirty)
        r0 == SQLite3CodecCallback(codec[0], cache[p], 6)
        r == Resolve(r0, g)
    IN  /\ pc = "end"
        /\ rc = "OK"
        /\ (g # 0) => (~fail /\ dirty # {} /\ ReadsUninit(r0))
        /\ IF fail
           THEN /\ rc' = "IOERR"
                /\ pc' = "reconcile"
                /\ UNCHANGED <<disk, codec, dirty, journal, txn>>
           ELSE IF dirty # {}
           THEN /\ disk' = [disk EXCEPT ![p] = Returned(r)]
                /\ codec' = [codec EXCEPT ![0] = AfterCallback(@, r)]
                /\ dirty' = dirty \ {p}
                /\ UNCHANGED <<rc, pc, journal, txn>>
           ELSE /\ journal' = EmptyJournal
                /\ txn' = "none"
                /\ pc' = "reconcile"
                /\ UNCHANGED <<rc, disk, codec, dirty>>
        /\ call' = [call EXCEPT !.commitTried = TRUE]
        /\ returned' = FALSE
        /\ last' = NoObs
        /\ att' = NoAtt
        /\ UNCHANGED pagerPageSize
        /\ UNCHANGED <<keyOf, freed, doubleFree, cache, pageCount, calls, mutex, n, nPage>>

\* lines 511-514: sqlite3BtreeRollback(pbt, SQLITE_OK, 1)
RekeyRollback ==
    /\ pc = "end"
    /\ rc # "OK"
    /\ disk' = Playback
    /\ cache' = CacheAfterRollback
    /\ journal' = EmptyJournal
    /\ dirty' = {}
    /\ txn' = "none"
    /\ pc' = "reconcile"
    /\ call' = [call EXCEPT !.rolledBack = TRUE]
    /\ returned' = FALSE
    /\ last' = NoObs
    /\ att' = NoAtt
    /\ UNCHANGED pagerPageSize
    /\ UNCHANGED <<codec, keyOf, freed, doubleFree, pageCount, calls, mutex, rc, n, nPage>>

\* reconciling that leaves the new write key in place when rekey failed
Reconciled_KeepsWriteKey(b, code) ==
    IF code = "OK" THEN [b EXCEPT !.readCtx = b.writeCtx]
    ELSE b

\* lines 518-531: the block after the keys are reconciled
Reconciled(b, code) ==
    IF code = "OK" THEN [b EXCEPT !.readCtx = b.writeCtx]
    ELSE [b EXCEPT !.writeCtx = b.readCtx]

\* lines 518-531: the context handed to sqlite3_free while reconciling
ReconcileFrees(b, code) ==
    IF code = "OK" THEN (IF b.readCtx # NULL THEN {b.readCtx} ELSE {})
    ELSE (IF b.writeCtx # NULL THEN {b.writeCtx} ELSE {})

\* lines 516-543: reconcile the keys, drop an empty codec, leave the mutex, return
RekeyFinish ==
    LET b == Reconciled(codec[0], rc)
        f1 == ReconcileFrees(codec[0], rc)
        remove == b.readCtx = NULL /\ b.writeCtx = NULL
        f2 == IF remove THEN FreeCodecCryptBlock(b) ELSE <<>>
    IN  /\ pc = "reconcile"
        /\ codec' = [codec EXCEPT ![0] = IF remove THEN NoBlock ELSE b]
        /\ freed' = freed \cup f1 \cup Range(f2)
        /\ doubleFree' = (doubleFree \/ f1 \cap freed # {} \/ FreedTwice(f2, freed \cup f1))
        /\ mutex' = FALSE
        /\ pc' = "idle"
        /\ call' = [call EXCEPT !.active = FALSE, !.ret = rc]
        /\ returned' = TRUE
        /\ last' = NoObs
        /\ att' = NoAtt
        /\ UNCHANGED pagerPageSize
        /\ UNCHANGED <<keyOf, disk, cache, dirty, journal, txn, pageCount, calls, rc, n, nPage>>

\* ------------------------------------------------------------ environment
\* the pager invokes the codec callback of database nDb on a page buffer; a
\* write beyond the scratch buffer corrupts the heap, and the process goes on
\* or dies
Dispatch(nDb, nMode, data, g, crash) ==
    LET r0 == SQLite3CodecCallback(codec[nDb], data, nMode)
        r == Resolve(r0, g)
    IN  /\ pc # "crashed"
        /\ (g # 0) => ReadsUninit(r0)
        /\ crash => Overflows(codec[nDb], nMode)
        /\ pc' = (IF crash THEN "crashed" ELSE pc)
        /\ codec' = [codec EXCEPT ![nDb] = AfterCallback(@, r)]
        /\ last' = [mode |-> nMode, db |-> nDb, in |-> data, block |-> codec[nDb],
                    readKey |-> KeyVal(codec[nDb].readCtx),
                    writeKey |-> KeyVal(codec[nDb].writeCtx), res |-> r]
        /\ returned' = FALSE
        /\ att' = NoAtt
        /\ UNCHANGED pagerPageSize
        /\ UNCHANGED <<calls, keyOf, freed, doubleFree, disk, cache, dirty, journal, txn,
                       pageCount, mutex, rc, n, nPage, call>>

\* the process is interrupted inside rekey's transaction, and at the next open
\* the host replays the rollback journal into the main file; nothing of the
\* process's memory survives
InterruptAndRecover ==
    /\ pc \in {"loop", "end"}
    /\ txn = "open"
    /\ disk' = Playback
    /\ cache' = [p \in Pages |-> NotCached]
    /\ journal' = EmptyJournal
    /\ dirty' = {}
    /\ txn' = "none"
    /\ codec' = [d \in DbIdx |-> NoBlock]
    /\ mutex' = FALSE
    /\ pc' = "recovered"
    /\ returned' = FALSE
    /\ last' = NoObs
    /\ att' = NoAtt
    /\ UNCHANGED <<keyOf, freed, doubleFree, pageCount, rc, n, nPage, call, calls,
                   pagerPageSize>>

\* another thread of the connection runs a page operation on the primary: the
\* API call that leads to it takes db->mutex, so it runs while the mutex is free
OtherThreadDispatch(nMode, data, g) ==
    /\ ~mutex
    /\ Dispatch(0, nMode, data, g, FALSE)

\* the pager's page size is set (sqlite3PagerSetPagesize, at idle and outside a
\* transaction): it reports the size to the codec through the size-changed
\* callback, also when the size is the one it had
SizeChanged(nDb, size) ==
    /\ pc = "idle"
    /\ txn = "none"
    /\ pagerPageSize' = [pagerPageSize EXCEPT ![nDb] = size]
    /\ codec' = [codec EXCEPT ![nDb] = SQLite3CodecSizeChangedCallback(@, size)]
    /\ returned' = FALSE
    /\ last' = NoObs
    /\ att' = NoAtt
    /\ call' = NoCall
    /\ UNCHANGED <<keyOf, freed, doubleFree, disk, cache, dirty, journal, txn, pageCount,
                   calls, mutex, pc, rc, n, nPage>>

\* the attached database nDb is closed: its pager frees its codec
\* (sqlite3PagerClose calls the free callback)
Detach(nDb) ==
    /\ pc = "idle"
    /\ codec[nDb].present
    /\ PagerSetCodec(nDb, NoBlock)
    /\ returned' = FALSE
    /\ last' = NoObs
    /\ att' = NoAtt
    /\ call' = NoCall
    /\ UNCHANGED <<keyOf, disk, cache, dirty, journal, txn, pageCount, calls, mutex, pc,
                   rc, n, nPage, pagerPageSize>>

\* the host rolls back a transaction that rekey left open (close, recovery)
HostRollback ==
    /\ pc = "idle"
    /\ txn = "open"
    /\ disk' = Playback
    /\ cache' = CacheAfterRollback
    /\ journal' = EmptyJournal
    /\ dirty' = {}
    /\ txn' = "none"
    /\ returned' = FALSE
    /\ last' = NoObs
    /\ att' = NoAtt
    /\ UNCHANGED pagerPageSize
    /\ call' = NoCall
    /\ UNCHANGED <<codec, keyOf, freed, doubleFree, pageCount, calls, mutex, pc, rc, n,
                   nPage>>

Next ==
    \/ \E pKey \in 0..NPass, fail \in AllocFails : sqlite3CodecAttach(0, pKey, fail, "OK")
    \/ \E pKey \in 0..NPass, fail \in AllocFails : RekeyStart(pKey, fail)
    \/ RekeyMutexEnter
    \/ \E fail \in BOOLEAN : RekeyBeginTrans(fail)
    \/ \E getFail \in BOOLEAN, writeFail \in BOOLEAN, g \in PageVals :
          RekeyPage(getFail, writeFail, g)
    \/ \E fail \in BOOLEAN, g \in PageVals : RekeyCommit(fail, g)
    \/ RekeyRollback
    \/ RekeyFinish
    \/ HostRollback

\* the rekey protocol with every failure the pager and the allocator can inject
Spec == Init /\ [][Next]_vars

\* the codec callback invoked on arbitrary page buffers, between and inside
\* rekey calls that meet no failure
NextCodec ==
    \/ \E pKey \in 0..NPass : sqlite3CodecAttach(0, pKey, "none", "OK")
    \/ \E pKey \in 0..NPass : RekeyStart(pKey, "none")
    \/ RekeyMutexEnter
    \/ RekeyBeginTrans(FALSE)
    \/ \E g \in PageVals : RekeyPage(FALSE, FALSE, g)
    \/ \E g \in PageVals : RekeyCommit(FALSE, g)
    \/ RekeyFinish
    \/ \E nMode \in Modes, data \in PageVals, g \in PageVals : Dispatch(0, nMode, data, g, FALSE)

\* the callback does not depend on the page count: one page is enough
InitCodec == Init /\ pageCount <= 1

SpecCodec == InitCodec /\ [][NextCodec]_vars

\* the key arguments of attach: a negative length, no key, a passphrase
AttachKeys == -1..1

\* attach on every database index with every kind of key argument and every
\* allocation failure, close of the attached database, and rekey of the
\* primary with every failure
NextAttach ==
    \/ \E nDb \in 0..BadDb, pKey \in AttachKeys, fail \in AllocFails, ub \in UbOutcomes :
          sqlite3CodecAttach(nDb, pKey, fail, ub)
    \/ Detach(1)
    \/ \E pKey \in 0..NPass, fail \in AllocFails : RekeyStart(pKey, fail)
    \/ RekeyMutexEnter
    \/ \E fail \in BOOLEAN : RekeyBeginTrans(fail)
    \/ \E getFail \in BOOLEAN, writeFail \in BOOLEAN, g \in PageVals :
          RekeyPage(getFail, writeFail, g)
    \/ \E fail \in BOOLEAN, g \in PageVals : RekeyCommit(fail, g)
    \/ RekeyRollback
    \/ RekeyFinish
    \/ HostRollback

SpecAttach == InitCodec /\ [][NextAttach]_vars

\* attach with a key on a new, empty primary and on an attached database,
\* page-size changes and page traffic on the attached database
NextSize ==
    \/ \E nDb \in DbIdx, pKey \in 0..NPass : sqlite3CodecAttach(nDb, pKey, "none", "OK")
    \/ \E size \in PageSizes : SizeChanged(1, size)
    \/ Detach(1)
    \/ \E nMode \in Modes, data \in PageVals, g \in PageVals, crash \in BOOLEAN :
          Dispatch(1, nMode, data, g, crash)

InitSize == Init /\ pageCount = 0

SpecSize == InitSize /\ [][NextSize]_vars

\* rekey meeting no failure on one thread, page operations of the same
\* connection on another
NextThreads ==
    \/ \E pKey \in 0..NPass : sqlite3CodecAttach(0, pKey, "none", "OK")
    \/ \E pKey \in 0..NPass : RekeyStart(pKey, "none")
    \/ RekeyMutexEnter
    \/ RekeyBeginTrans(FALSE)
    \/ \E g \in PageVals : RekeyPage(FALSE, FALSE, g)
    \/ \E g \in PageVals : RekeyCommit(FALSE, g)
    \/ RekeyFinish
    \/ \E nMode \in Modes, data \in PageVals, g \in PageVals :
          OtherThreadDispatch(nMode, data, g)

SpecThreads == InitCodec /\ [][NextThreads]_vars

\* rekey meeting no failure of its own, interrupted at any point of its
\* transaction
NextCrash ==
    \/ \E pKey \in 0..NPass : sqlite3CodecAttach(0, pKey, "none", "OK")
    \/ \E pKey \in 0..NPass : RekeyStart(pKey, "none")
    \/ RekeyMutexEnter
    \/ RekeyBeginTrans(FALSE)
    \/ \E g \in PageVals : RekeyPage(FALSE, FALSE, g)
    \/ \E g \in PageVals : RekeyCommit(FALSE, g)
    \/ RekeyFinish
    \/ InterruptAndRecover

SpecCrash == Init /\ [][NextCrash]_vars

TypeOK ==
    /\ pc \in {"idle", "lock", "begin", "loop", "end", "reconcile", "crashed", "recovered"}
    /\ rc \in {"OK", "ERROR", "IOERR"}
    /\ disk \in [Pages -> PageVals]
    /\ freed \subseteq CtxIds

\* ------------------------------------------------------------------ claims
ReadKey == KeyVal(codec[0].readCtx)

\* page p of file d reads correctly under key k
PageReadable(d, p, k) == d[p] = Stored(k, OrigPage(p))

\* C1: if a page get or mark-dirty fails on some page during rekey, then after
\* rekey returns every page that was readable with the pre-rekey read key is
\* still readable with it, and the block's write key equals its read key.
C1_PageFailureKeepsOriginalKey ==
    (returned /\ call.pageFailed # {}) =>
        /\ \A p \in DataPages :
              PageReadable(call.preDisk, p, call.preRead) =>
                  PageReadable(disk, p, call.preRead)
        /\ codec[0].writeCtx = codec[0].readCtx

\* C2: if the transaction begin or any page failed, the commit is never
\* attempted in that call, and the call ends rolled back with a non-OK status.
C2_CommitOnlyIfEveryPageSucceeded ==
    (call.beginFailed \/ call.pageFailed # {}) =>
        /\ ~call.commitTried
        /\ returned => (call.rolledBack /\ call.ret # "OK")

\* C3: whenever no rekey call is executing, all pages of the primary file are
\* stored under one key, the block's read key (plaintext without a block).
C3_NoPartialKeyState ==
    (pc = "idle") => Readable(disk, ReadKey)

\* C4: after rekey with a non-empty key K returned OK, read key and write key
\* are the one context derived from K, the previous read key is freed, and
\* every page that read correctly before reads correctly under K.
C4_RekeySuccessConverges ==
    (returned /\ call.key # 0 /\ call.ret = "OK") =>
        /\ codec[0].present
        /\ codec[0].readCtx # NULL
        /\ codec[0].readCtx = codec[0].writeCtx
        /\ codec[0].readCtx = call.newCtx
        /\ ReadKey = Sha1Prefix(call.key)
        /\ (call.preReadCtx # NULL) => (call.preReadCtx \in freed)
        /\ \A p \in DataPages :
              PageReadable(call.preDisk, p, call.preRead) =>
                  PageReadable(disk, p, Sha1Prefix(call.key))

\* C5: whenever rekey returns a non-OK status, the encryption state is the one
\* before the call: same read key, write key equal to read key, the new
\* context freed, and a block registered exactly if one was before.
C5_FailureRestoresState ==
    (returned /\ call.ret # "OK") =>
        /\ codec[0].present = call.preBlock
        /\ codec[0].readCtx = call.preReadCtx
        /\ codec[0].writeCtx = codec[0].readCtx
        /\ (call.newCtx # NULL) => (call.newCtx \in freed)

\* the callback was just invoked with a block registered
Invoked(modes) == last.mode \in modes /\ last.block.present

\* C6: a page written to the rollback journal (mode 7) is returned encrypted
\* under the read key, whatever the write key is, so that decrypting the
\* journal bytes with the read key gives the page back.
C6_JournalUsesReadKey ==
    (Invoked({7}) /\ last.block.readCtx # NULL) =>
        /\ last.res.ret = "scratch"
        /\ Returned(last.res) = Arc4Crypt(last.readKey, last.in)
        /\ Arc4Crypt(last.readKey, Returned(last.res)) = last.in

\* C7: a page written to the main file (mode 6) with a write key present is
\* returned in the scratch buffer, which holds the encryption of the input
\* under the write key.
C7_MainWriteUsesWriteKey ==
    (Invoked({6}) /\ last.block.writeCtx # NULL) =>
        /\ last.res.ret = "scratch"
        /\ last.res.scratch = Arc4Crypt(last.writeKey, last.in)

\* C8: loading, reloading or journal-undoing a page (modes 3, 2, 0) with a
\* read key present decrypts it with the read key into the caller's buffer,
\* which is the buffer returned.
C8_LoadDecryptsInPlace ==
    (Invoked(DecryptModes) /\ last.block.readCtx # NULL) =>
        /\ last.res.ret = "data"
        /\ last.res.data = Arc4Crypt(last.readKey, last.in)

\* C9: a callback invocation for the main file or the journal (modes 6, 7)
\* leaves the caller's buffer unchanged and writes nothing but the block's
\* scratch buffer.
C9_EncryptKeepsInput ==
    (last.mode \in {6, 7}) =>
        /\ last.res.data = last.in
        /\ codec[last.db] = AfterCallback(last.block, last.res)
        /\ \A f \in {"present", "readCtx", "writeCtx"} :
              codec[last.db][f] = last.block[f]

C9_Witness ==
    /\ Invoked({6, 7})
    /\ last.res.ret = "scratch"
    /\ last.res.scratch # last.in
    /\ last.block.cryptBuffer # last.res.scratch

\* C10: with the key of the purpose absent (read key for modes 0, 2, 3, 7,
\* write key for mode 6) or with no block at all, the callback returns the
\* caller's buffer with its content unmodified.
C10_AbsentKeyPassesThrough ==
    (\/ last.mode # -1 /\ ~last.block.present
     \/ Invoked(DecryptModes \cup {7}) /\ last.block.readCtx = NULL
     \/ Invoked({6}) /\ last.block.writeCtx = NULL) =>
        /\ last.res.ret = "data"
        /\ last.res.data = last.in

C10_Witness ==
    /\ Invoked({7})
    /\ last.block.readCtx = NULL
    /\ last.block.writeCtx # NULL
    /\ last.res.ret = "data"

\* C11: a context whose key bytes are all zero is a present key: a page
\* written to the main file or the journal under it is returned as the cipher
\* transform of the input, not as what the scratch buffer held before and not
\* as the plain page.
C11_ZeroKeyIsAKey ==
    (\/ Invoked({6}) /\ last.block.writeCtx # NULL /\ last.writeKey = 0
     \/ Invoked({7}) /\ last.block.readCtx # NULL /\ last.readKey = 0) =>
        /\ last.res.ret = "scratch"
        /\ last.res.scratch = Arc4Crypt(0, last.in)

\* C12: round trip: the bytes the callback returns for a main-file write under
\* the key derived from a non-empty passphrase, decrypted in place under the
\* same key, are the original page.
C12_RoundTrip ==
    (Invoked({6}) /\ last.block.writeCtx # NULL) =>
        SQLiteDecrypt(last.writeKey, Returned(last.res), Returned(last.res)) = last.in

\* C16: after any rekey call returns, a block is registered exactly if its
\* read key is present; a rekey with the empty key on an encrypted database
\* that returns OK has removed the block, freed the old read key, and left
\* every page that was readable before readable as plaintext.
C16_BlockIffReadKey ==
    returned =>
        /\ codec[0].present <=> (codec[0].readCtx # NULL)
        /\ (call.key = 0 /\ call.preReadCtx # NULL /\ call.ret = "OK") =>
              /\ ~codec[0].present
              /\ call.preReadCtx \in freed
              /\ \A p \in DataPages :
                    PageReadable(call.preDisk, p, call.preRead) =>
                        PageReadable(disk, p, NoKey)

\* C17: if the allocation of the new context fails while rekey derives the key
\* of a non-empty passphrase, rekey returns NOMEM and changes neither the keys
\* nor the registration nor any page.
C17_AllocFailureIsNotDecrypt ==
    (returned /\ call.key # 0 /\ call.newCtx = NULL) =>
        /\ call.ret = "NOMEM"
        /\ disk = call.preDisk
        /\ codec[0].present = call.preBlock
        /\ codec[0].readCtx = call.preReadCtx
        /\ codec[0].writeCtx = codec[0].readCtx

\* the contexts allocated and not yet freed or leaked out of the model's view
Allocated == CtxIds \ FreeIds

\* an attach call on an attached database that takes the primary's key
AttachInherited ==
    /\ att.nDb = 1
    /\ NoKeyGiven(att.pKey)
    /\ att.pre[0].present
    /\ att.pre[0].readCtx # NULL
    /\ att.ret = "OK"

\* the contexts a block refers to
CtxOf(b) == (IF b.present THEN {b.readCtx, b.writeCtx} ELSE {}) \ {NULL}

\* C13: attach with no key on the attached database, when the primary has a
\* block with a read key, registers a block whose read and write key are one
\* newly allocated context holding the primary's read-key bytes; and in every
\* state the two blocks share no context and no context a block refers to has
\* been freed, whatever rekey of the primary or close of the attached database
\* has freed since.
C13_CloneIsOwnedCopy ==
    /\ AttachInherited =>
          /\ codec[1].present
          /\ codec[1].readCtx # NULL
          /\ codec[1].writeCtx = codec[1].readCtx
          /\ codec[1].readCtx \notin att.allocated
          /\ keyOf[codec[1].readCtx] = keyOf[att.pre[0].readCtx]
    /\ CtxOf(codec[0]) \cap CtxOf(codec[1]) = {}
    /\ CtxOf(codec[1]) \cap freed = {}
    /\ (pc = "idle") => (CtxOf(codec[0]) \cap freed = {})
    /\ ~doubleFree

C13_Witness ==
    /\ AttachInherited
    /\ keyOf[codec[1].readCtx] # 0
    /\ calls > 0

\* an attach call with no key that has nothing to inherit
AttachNothing ==
    /\ NoKeyGiven(att.pKey)
    /\ \/ att.nDb = 0
       \/ att.nDb = 1 /\ (~att.pre[0].present \/ att.pre[0].readCtx = NULL)

\* C14: attach with no key on the primary, or on the attached database when
\* the primary has no block or no read key, returns OK, allocates nothing and
\* leaves every codec registration as it was.
C14_NoKeyNoBlock ==
    AttachNothing =>
        /\ att.ret = "OK"
        /\ codec = att.pre
        /\ Allocated = att.allocated

C14_Witness ==
    /\ AttachNothing
    /\ att.nDb = 0
    /\ att.pre[0].present
    /\ att.pre[0].readCtx # NULL

\* C15: attach with a non-empty key on a database registers on its pager a
\* block whose read and write key are one newly allocated context derived from
\* the key, whose page size is the pager's page size and whose scratch buffer
\* has that size.
C15_KeyRegistersBlock ==
    (att.pKey > 0 /\ att.nDb \in DbIdx) =>
        /\ att.ret = "OK"
        /\ codec[att.nDb].present
        /\ codec[att.nDb].readCtx # NULL
        /\ codec[att.nDb].writeCtx = codec[att.nDb].readCtx
        /\ codec[att.nDb].readCtx \notin att.allocated
        /\ keyOf[codec[att.nDb].readCtx] = Sha1Prefix(att.pKey)
        /\ codec[att.nDb].pageSize = pagerPageSize[att.nDb]
        /\ codec[att.nDb].bufSize = pagerPageSize[att.nDb]

C15_Witness ==
    /\ att.pKey > 0
    /\ att.nDb = 1
    /\ att.ret = "OK"
    /\ att.pre[1].present
    /\ pagerPageSize[1] = 2

\* C18: attach with a database index that names no open database, or with a
\* negative key length, returns an error status, and no context is allocated
\* and no codec registration changes.
C18_MisuseRejected ==
    (att.nDb = BadDb \/ att.pKey < 0) =>
        /\ att.ret \notin {"OK", "CRASH"}
        /\ codec = att.pre
        /\ Allocated = att.allocated

\* C19: whenever no rekey call is executing, every registered block has a
\* write key identical to its read key.
C19_KeysAgreeAtRest ==
    (pc = "idle") =>
        \A d \in DbIdx : codec[d].present => codec[d].writeCtx = codec[d].readCtx

C19_Witness ==
    /\ returned
    /\ call.ret # "OK"
    /\ call.newCtx # NULL
    /\ codec[0].present
    /\ codec[0].readCtx # NULL

\* C20: in every state the scratch buffer of every registered block has the
\* block's recorded page size, which is the pager's page size, and no encrypt
\* dispatch writes more bytes than the scratch buffer holds.
C20_ScratchMatchesPageSize ==
    /\ \A d \in DbIdx :
          codec[d].present =>
              /\ codec[d].bufSize = codec[d].pageSize
              /\ codec[d].pageSize = pagerPageSize[d]
    /\ Invoked({6, 7}) => ~Overflows(last.block, last.mode)

\* C21: a page operation of another thread of the connection, which runs only
\* while rekey does not hold the connection mutex, never finds a block whose
\* write key differs from its read key.
C21_KeysDifferOnlyUnderLock ==
    Invoked(Modes) => last.block.writeCtx = last.block.readCtx

\* C22: in a rekey whose transaction began and in which no page operation
\* failed, when the commit is attempted every page from 1 to the page count
\* except the reserved page has been read and marked dirty exactly once, the
\* reserved page not at all (with a page count of 0, no page); and such a rekey
\* does attempt the commit.
C22_EveryPageOnce ==
    /\ (call.commitTried /\ call.pageFailed = {}) =>
          /\ Range(call.visited) = DataPages
          /\ Len(call.visited) = Cardinality(DataPages)
          /\ PendingPage \notin Range(call.visited)
    /\ (pc = "reconcile" /\ ~call.beginFailed /\ call.pageFailed = {}) =>
          call.commitTried

C22_Witness ==
    /\ call.commitTried
    /\ call.pageFailed = {}
    /\ pageCount = NPages
    /\ Len(call.visited) = NPages - 1

\* C23: after the process was interrupted inside rekey's transaction and the
\* host replayed the rollback journal, every page that read correctly under
\* the pre-rekey read key before the call reads correctly under it again.
C23_RecoveryRestoresPreRekey ==
    (pc = "recovered") =>
        \A p \in DataPages :
            PageReadable(call.preDisk, p, call.preRead) =>
                PageReadable(disk, p, call.preRead)

\* C24: a page-size change notification on the attached database sets the
\* recorded page size of its block to the new size and changes nothing else:
\* read key, write key, scratch buffer content and allocation, the other
\* database's block and the contexts stay as they were; with the size already
\* equal the block is unchanged.
C24_SizeChangeOnlySetsPageSize ==
    [][\A size \in PageSizes :
          SizeChanged(1, size) =>
              /\ codec'[1] = (IF codec[1].present
                              THEN [codec[1] EXCEPT !.pageSize = size]
                              ELSE codec[1])
              /\ (codec[1].pageSize = size) => (codec'[1] = codec[1])
              /\ codec'[0] = codec[0]
              /\ keyOf' = keyOf
              /\ freed' = freed]_vars

C24_Witness ==
    /\ codec[1].present
    /\ codec[1].pageSize = 2
    /\ codec[1].bufSize = 1
    /\ codec[1].cryptBuffer \in PageVals
    /\ pagerPageSize[1] = 2

\* C25: no context is handed to sqlite3_free twice (the destructor frees the
\* write key only when it is another reference than the read key), and no
\* registered block refers to a freed context, at rest or inside rekey.
C25_NoDoubleFreeNoUseAfterFree ==
    /\ ~doubleFree
    /\ \A d \in DbIdx : CtxOf(codec[d]) \cap freed = {}

C25_Witness ==
    /\ att.nDb = 0
    /\ att.pKey > 0
    /\ att.ret = "OK"
    /\ att.pre[0].present
    /\ att.pre[0].readCtx \in freed
    /\ calls > 0

\* C27: from the start of a rekey call to its return, whatever its outcome, the
\* block of the attached database is the one it was when the call started,
\* the key bytes of its contexts are the ones they were, and none of its
\* contexts has been freed.
C27_RekeyLeavesAttachedAlone ==
    (call.active \/ returned) =>
        /\ codec[1] = call.preAttached
        /\ CtxOf(codec[1]) \cap freed = {}
        /\ \A c \in CtxOf(codec[1]) : c # call.newCtx

C27_Witness ==
    /\ returned
    /\ call.ret = "OK"
    /\ call.preReadCtx # NULL
    /\ call.preReadCtx \in freed
    /\ codec[1].present
    /\ keyOf[codec[1].readCtx] = call.preRead

\* C26: when a rekey call that began its transaction returns, the transaction
\* is closed (committed, or rolled back, also when the commit failed) and the
\* connection mutex is released.
C26_TransactionClosedOnReturn ==
    returned =>
        /\ ~mutex
        /\ (call.commitTried \/ call.rolledBack) => (txn = "none")
        /\ (call.commitTried /\ call.ret # "OK") => call.rolledBack

====
